---------------------------- MODULE Spec2Model ----------------------------
(***************************************************************************)
(* A model of the mosaic.js Facilitator (src/src/Facilitator/Facilitator.js)*)
(* as a state machine.  Every Facilitator method is a promise whose         *)
(* executor runs from one `await` / `.then` to the next; one action of the  *)
(* model is one such run: it starts when the awaited adapter call settles   *)
(* (the outcome is the action's input), executes the code up to and         *)
(* including the next adapter call, and stops there.  onResolve / onReject  *)
(* settle a promise only the first time they are called and never stop the  *)
(* executor, exactly as in JavaScript.                                      *)
(*                                                                          *)
(* The two ledgers are external: the model keeps, for the message the       *)
(* request identifies, its outbox status on origin and its inbox status on  *)
(* auxiliary, the staker's allowances and the staker's nonce.               *)
(***************************************************************************)
EXTENDS Integers, Sequences, FiniteSets, TLC

VARIABLES
    ledger,   \* the two ledgers' state for the message and the staker
    req,      \* the caller's transfer request (the arguments of every call)
    task,     \* per client: the running invocation (operation, promises, locals, call log)
    prev,     \* per client: what the previous, finished invocation did
    facilitator  \* the Facilitator object: the constructor's arguments and outcome

vars == <<ledger, req, task, prev, facilitator>>

-----------------------------------------------------------------------------
(* JavaScript values *)

Undef == "undefined"

\* Values that are JavaScript numbers, not strings.
NumberVals == {"#5", "#15", "#1"}

TypeOf(x) == IF x = Undef THEN "undefined"
             ELSE IF x \in NumberVals THEN "number" ELSE "string"

\* new BN(x): undefined becomes 0, a decimal string its integer value.
BN(x) == CASE x = Undef -> 0
           [] x = "0"   -> 0
           [] x = "-1"  -> -1
           [] x = "1"   -> 1
           [] OTHER     -> 1

\* Well-formed 20-byte addresses; every other value is rejected by isAddress.
Addresses == {"0xA", "0xB", "0xC", "0xF", "0xG"}

IsAddress(x) == x \in Addresses

GatewayAddress == "0xG"

CoGatewayAddress == "0xC"

\* MessageStatus (Message.messageStatus()).
UNDECLARED == "Undeclared"
DECLARED == "Declared"
PROGRESSED == "Progressed"
REVOCATION_DECLARED == "RevocationDeclared"
REVOKED == "Revoked"

MessageStatus == {UNDECLARED, DECLARED, PROGRESSED, REVOCATION_DECLARED, REVOKED}

\* Message.getStakeMessageHash: the fixed-order encoding of the parameters.
getStakeMessageHash(amount, beneficiary, gateway, nonce, gasPrice, gasLimit, staker, hashLock) ==
    <<"stake", amount, beneficiary, gateway, nonce, gasPrice, gasLimit, staker, hashLock>>

\* Utils.createSecretHashLock(): a fresh (hashLock, unlockSecret) pair.
createSecretHashLock == [hashLock |-> "0xHgen", unlockSecret |-> "0xSgen"]

\* hash(unlockSecret) = hashLock, as the ledger checks it.
Unlocks(secret, hashLock) ==
    \/ secret = "0xS" /\ hashLock = "0xH"
    \/ secret = "0xSgen" /\ hashLock = "0xHgen"

-----------------------------------------------------------------------------
(* Promises *)

Pending == [st |-> "pending", val |-> {}]

\* onResolve(v) / onReject(e): only the first settlement counts.
Resolve(p, v) == IF p.st = "pending" THEN [st |-> "resolved", val |-> v] ELSE p

Reject(p, e) == IF p.st = "pending" THEN [st |-> "rejected", val |-> e] ELSE p

\* A run of `if (bad) onReject(err)` checks that do not return: errs is the
\* sequence of the errors of the violated checks, in the order of the code.
RECURSIVE RejectEach(_, _)
RejectEach(p, errs) ==
    IF errs = <<>> THEN p ELSE RejectEach(Reject(p, {Head(errs)}), Tail(errs))

\* The errors of the checks among `checks` (pairs <<violated, error>>) that are violated.
RECURSIVE Violations(_)
Violations(checks) ==
    IF checks = <<>> THEN <<>>
    ELSE IF Head(checks)[1] THEN <<Head(checks)[2]>> \o Violations(Tail(checks))
         ELSE Violations(Tail(checks))

-----------------------------------------------------------------------------
(* The caller's request *)

TxOptions(from) == [def |-> TRUE, from |-> from]

NoTxOptions == [def |-> FALSE, from |-> Undef]

\* The README's stake request: the staker is the facilitator on origin.
BaseReq ==
    [staker |-> "0xA", amount |-> "1", beneficiary |-> "0xB",
     gasPrice |-> "5", gasLimit |-> "15", nonce |-> "1",
     hashLock |-> "0xH", unlockSecret |-> "0xS",
     txOptionOrigin |-> TxOptions("0xA"),
     txOptionAuxiliary |-> TxOptions("0xF")]

\* The other values each argument is tried with, one argument at a time.
Variants ==
    [staker |-> {"0x123"},
     amount |-> {"0", "-1"},
     beneficiary |-> {"0x123"},
     gasPrice |-> {Undef, "#5"},
     gasLimit |-> {Undef, "#15"},
     nonce |-> {Undef, "#1"},
     hashLock |-> {Undef},
     unlockSecret |-> {Undef, "0xX"},
     txOptionOrigin |-> {NoTxOptions, TxOptions("0x123"), TxOptions("0xF")},
     txOptionAuxiliary |-> {NoTxOptions, TxOptions("0x123")}]

Requests ==
    {BaseReq} \cup
    UNION {{[BaseReq EXCEPT ![f] = v] : v \in Variants[f]} : f \in DOMAIN Variants}

-----------------------------------------------------------------------------
(* The ledgers *)

\* The staker's nonce on origin is a counter the ledger keeps; the model stops
\* accepting stakes when it reaches MaxNonce.
MaxNonce == 2

\* The anchor heights the auxiliary ledger may report.
AnchorHeights == {"9", "10"}

\* `0x${new BN(blockHeight).toString(16)}`
ToHex(h) == CASE h = "9" -> "0x9" [] h = "10" -> "0xa" [] OTHER -> "0x0"

\* Ledger states a call may find: any pair of message statuses with the
\* allowances granted, or a message not yet declared with any allowances.
Ledgers ==
    {l \in [outbox : MessageStatus, inbox : MessageStatus,
            stakeApproved : BOOLEAN, bountyApproved : BOOLEAN, nonce : {1}] :
        \/ l.stakeApproved /\ l.bountyApproved
        \/ l.outbox = UNDECLARED /\ l.inbox = UNDECLARED}

\* The message the ledgers track is the one the request's parameters hash to.
LedgerHash(r) ==
    getStakeMessageHash(r.amount, r.beneficiary, GatewayAddress, r.nonce,
                        r.gasPrice, r.gasLimit, r.staker, r.hashLock)

\* gateway.getOutboxMessageStatus / coGateway.getInboxMessageStatus.
OutboxStatus(l, r, h) == IF h = LedgerHash(r) THEN l.outbox ELSE UNDECLARED

InboxStatus(l, r, h) == IF h = LedgerHash(r) THEN l.inbox ELSE UNDECLARED

-----------------------------------------------------------------------------
(* Invocations *)

Clients == {1, 2}

Threads == {"stake", "comp", "csi", "gp", "pp", "pps", "ppm"}

NoPair == [hashLock |-> Undef, unlockSecret |-> Undef]

NoStakeArgs ==
    [amount |-> Undef, beneficiary |-> Undef, gasPrice |-> Undef, gasLimit |-> Undef,
     nonce |-> Undef, hashLock |-> Undef, from |-> Undef, sent |-> FALSE]

IdleLocals ==
    [hashLockObj |-> NoPair, stakeHashLock |-> Undef,
     isStakeAmountApproved |-> Undef, isBountyAmountApproved |-> Undef,
     nonce |-> Undef, stakeArgs |-> NoStakeArgs,
     csiHash |-> <<>>, ppHash |-> <<>>,
     stakeMessageStatus |-> Undef, mintMessageStatus |-> Undef,
     psStatus |-> Undef, pmStatus |-> Undef,
     blockHeight |-> Undef, proofAccount |-> Undef, proofBlock |-> Undef,
     proofKeys |-> {}, proveBlock |-> Undef, confirmBlock |-> Undef,
     proveTx |-> Undef, progressStakeTx |-> Undef, progressMintTx |-> Undef,
     redeemValue |-> Undef, thrown |-> Undef]

IdleTask ==
    [op |-> "none",
     pc |-> [th \in Threads |-> "idle"],
     res |-> [th \in Threads |-> Pending],
     loc |-> IdleLocals,
     log |-> <<>>]

NoPrev == [op |-> "none", res |-> [th \in Threads |-> Pending], log |-> <<>>]

\* The adapter calls that submit a transaction.
Transactions ==
    {"approveStakeAmount", "approveBountyAmount", "stake",
     "proveGateway", "confirmStakeIntent", "progressStake", "progressMint"}

\* The adapter calls made so far by an invocation that are named in S.
Calls(log, S) == SelectSeq(log, LAMBDA e : e \in S)

Submitted(log) == Calls(log, Transactions)

\* The transactions submitted through this.coGateway, on the auxiliary ledger;
\* every other transaction goes through this.gateway, on origin.
AuxiliaryTxs == {"proveGateway", "confirmStakeIntent", "progressMint"}

\* An adapter call is made: it is appended to the invocation's call log.
Call(t, name) == [t EXCEPT !.log = Append(@, name)]

-----------------------------------------------------------------------------
(* Facilitator.constructor *)

\* The values that are instances of Web3.
Web3Objects == {"originWeb3", "auxiliaryWeb3"}

IsWeb3(x) == x \in Web3Objects

\* The arguments `new Facilitator(...)` is tried with.
ConstructorArgs ==
    [originWeb3 : Web3Objects \cup {Undef, "http://origin"},
     auxiliaryWeb3 : Web3Objects \cup {Undef, "http://auxiliary"},
     gatewayAddress : {GatewayAddress, "0x123", Undef},
     coGatewayAddress : {CoGatewayAddress, "0x123", Undef}]

\* The arguments of the README's facilitator.
GoodArgs ==
    [originWeb3 |-> "originWeb3", auxiliaryWeb3 |-> "auxiliaryWeb3",
     gatewayAddress |-> GatewayAddress, coGatewayAddress |-> CoGatewayAddress]

\* No EIP20Gateway / EIP20CoGateway object.
NoAdapter == [web3 |-> Undef, address |-> Undef]

\* `new Facilitator(a)` has been written and not yet evaluated.
NewFacilitator(a) ==
    [st |-> "new", args |-> a, thrown |-> Undef,
     gateway |-> NoAdapter, coGateway |-> NoAdapter]

\* Lines 46-61: the checks, each of which throws.
ConstructorChecks(a) ==
    << <<~IsWeb3(a.originWeb3), "Invalid origin web3 object.">>,
       <<~IsWeb3(a.auxiliaryWeb3), "Invalid auxiliary web3 object.">>,
       <<~IsAddress(a.gatewayAddress), "Invalid Gateway address.">>,
       <<~IsAddress(a.coGatewayAddress), "Invalid CoGateway address.">> >>

\* A faulty variant of the constructor that checks the addresses before the
\* web3 objects.
constructorAddressesFirst(a) ==
    LET c == ConstructorChecks(a)
        v == Violations(<<c[3], c[4], c[1], c[2]>>)
    IN  IF v # <<>>
        THEN [NewFacilitator(a) EXCEPT !.st = "thrown", !.thrown = Head(v)]
        ELSE [NewFacilitator(a) EXCEPT
                 !.st = "constructed",
                 !.gateway = [web3 |-> a.originWeb3, address |-> a.gatewayAddress],
                 !.coGateway = [web3 |-> a.auxiliaryWeb3, address |-> a.coGatewayAddress]]

\* Lines 45-72: the first violated check throws and nothing is assigned;
\* otherwise the two adapters are created.
constructor(a) ==
    LET v == Violations(ConstructorChecks(a))
    IN  IF v # <<>>
        THEN [NewFacilitator(a) EXCEPT !.st = "thrown", !.thrown = Head(v)]
        ELSE [NewFacilitator(a) EXCEPT
                 !.st = "constructed",
                 !.gateway = [web3 |-> a.originWeb3, address |-> a.gatewayAddress],
                 !.coGateway = [web3 |-> a.auxiliaryWeb3, address |-> a.coGatewayAddress]]

-----------------------------------------------------------------------------
Init ==
    /\ ledger \in Ledgers
    /\ req \in Requests
    /\ task = [c \in Clients |-> IdleTask]
    /\ prev = [c \in Clients |-> NoPrev]
    /\ facilitator = constructor(GoodArgs)

\* What became of a submitted transaction: the ledger accepted or refused it.
TxOutcome(ok) == IF ok THEN "accepted" ELSE "refused"

-----------------------------------------------------------------------------
(* Facilitator.stake *)

\* The executor has thrown (an awaited call rejected with no handler, or a
\* property of undefined was read): it runs no further and settles nothing.
Throw(t, th) == [t EXCEPT !.pc[th] = "dead"]

\* Lines 91-124: the checks, none of which returns.
StakeChecks(r) ==
    << <<~IsAddress(r.staker), "Invalid staker address.">>,
       <<BN(r.amount) = 0, "Stake amount must not be zero.">>,
       <<~IsAddress(r.beneficiary), "Invalid beneficiary address.">>,
       <<r.gasPrice = Undef, "Invalid gas price.">>,
       <<r.gasLimit = Undef, "Invalid gas limit.">>,
       <<~r.txOptionOrigin.def, "Invalid transaction options.">>,
       <<r.txOptionOrigin.def /\ ~IsAddress(r.txOptionOrigin.from),
         "Invalid facilitator address.">> >>

\* Lines 171-176: the bounty allowance is read.
StakeCheckBounty(t) ==
    [Call(t, "isBountyAmountApproved") EXCEPT !.pc.stake = "awaitIsBountyAmountApproved"]

\* Lines 189-190: the staker's nonce is read.
StakeGetNonce(t) ==
    [Call(t, "getNonce") EXCEPT !.pc.stake = "awaitGetNonce"]

\* Line 204: the hash lock handed to gateway.stake.
StakeTxHashLock(t, r) == r.hashLock

\* A faulty variant of StakeSubmit that hands the gas limit over as the gas
\* price and the gas price as the gas limit.
StakeSubmitGasSwapped(t, r) ==
    [Call(t, "stake") EXCEPT
        !.pc.stake = "awaitStake",
        !.loc.stakeArgs =
            [amount |-> r.amount, beneficiary |-> r.beneficiary,
             gasPrice |-> r.gasLimit, gasLimit |-> r.gasPrice,
             nonce |-> t.loc.nonce, hashLock |-> StakeTxHashLock(t, r),
             from |-> r.txOptionOrigin.from, sent |-> TRUE]]

\* Lines 196-206: gateway.stake is called with the assembled arguments.
StakeSubmit(t, r) ==
    [Call(t, "stake") EXCEPT
        !.pc.stake = "awaitStake",
        !.loc.stakeArgs =
            [amount |-> r.amount, beneficiary |-> r.beneficiary,
             gasPrice |-> r.gasPrice, gasLimit |-> r.gasLimit,
             nonce |-> t.loc.nonce, hashLock |-> StakeTxHashLock(t, r),
             from |-> r.txOptionOrigin.from, sent |-> TRUE]]

\* Lines 87-145: the checks, the hash lock, and the first allowance read.
\* `txOption.from` of a missing txOption throws at line 121.
stake(t, r) ==
    LET t1 == [t EXCEPT !.op = "stake",
                        !.res.stake = RejectEach(@, Violations(StakeChecks(r)))]
        t2 == IF r.hashLock = Undef
              THEN [t1 EXCEPT !.loc.hashLockObj = createSecretHashLock,
                              !.loc.stakeHashLock = createSecretHashLock.hashLock]
              ELSE [t1 EXCEPT !.loc.stakeHashLock = r.hashLock]
    IN  IF ~r.txOptionOrigin.def
        THEN Throw(t1, "stake")
        ELSE [Call(t2, "isStakeAmountApproved") EXCEPT
                 !.pc.stake = "awaitIsStakeAmountApproved"]

\* Lines 142-169: isStakeAmountApproved has settled (no handler: a rejection throws).
StakeOnIsStakeAmountApproved(t, r, failed, approved) ==
    IF failed THEN Throw(t, "stake")
    ELSE LET t1 == [t EXCEPT !.loc.isStakeAmountApproved = IF approved THEN "true" ELSE "false"]
         IN  IF approved THEN StakeCheckBounty(t1)
             ELSE IF r.staker = r.txOptionOrigin.from
                  THEN [Call(t1, "approveStakeAmount") EXCEPT
                           !.pc.stake = "awaitApproveStakeAmount"]
                  ELSE StakeCheckBounty(
                           [t1 EXCEPT !.res.stake =
                               Reject(@, {"Transfer of stake amount must be approved."})])

\* Lines 154-176: approveStakeAmount has settled; its catch rejects and goes on.
StakeOnApproveStakeAmount(t, ok) ==
    StakeCheckBounty(
        IF ok THEN t
        ELSE [t EXCEPT !.res.stake = Reject(@, {"approveStakeAmount failed"})])

\* A faulty variant of StakeOnIsBountyAmountApproved that approves the bounty
\* whatever the allowance read.
StakeOnIsBountyAmountApprovedAlways(t, failed, approved) ==
    IF failed THEN Throw(t, "stake")
    ELSE [Call([t EXCEPT !.loc.isBountyAmountApproved = IF approved THEN "true" ELSE "false"],
               "approveBountyAmount") EXCEPT
             !.pc.stake = "awaitApproveBountyAmount"]

\* Lines 174-190: isBountyAmountApproved has settled (no handler).
StakeOnIsBountyAmountApproved(t, failed, approved) ==
    IF failed THEN Throw(t, "stake")
    ELSE LET t1 == [t EXCEPT !.loc.isBountyAmountApproved = IF approved THEN "true" ELSE "false"]
         IN  IF approved THEN StakeGetNonce(t1)
             ELSE [Call(t1, "approveBountyAmount") EXCEPT
                      !.pc.stake = "awaitApproveBountyAmount"]

\* Lines 181-190: approveBountyAmount has settled; its catch rejects and goes on.
StakeOnApproveBountyAmount(t, ok) ==
    StakeGetNonce(
        IF ok THEN t
        ELSE [t EXCEPT !.res.stake = Reject(@, {"approveBountyAmount failed"})])

\* Lines 190-206: getNonce has settled; its catch rejects and leaves nonce undefined.
StakeOnGetNonce(t, r, ok, nonce) ==
    StakeSubmit(
        IF ok THEN [t EXCEPT !.loc.nonce = nonce]
        ELSE [t EXCEPT !.res.stake = Reject(@, {"getNonce failed"})],
        r)

\* Line 209: what a successful stake resolves with.
StakeResult(t) == {"stakeResult"}

\* Lines 207-214: gateway.stake has settled.
StakeOnStake(t, ok) ==
    [t EXCEPT !.pc.stake = "done",
              !.res.stake = IF ok THEN Resolve(@, StakeResult(t))
                            ELSE Reject(@, {"stake failed"})]

\* The origin ledger: an approval grants the allowance; a stake is accepted
\* only with both allowances, a positive amount and the staker's current
\* nonce, and declares the message the stake's arguments hash to.
\* gateway.isStakeAmountApproved(staker, amount): the allowance covers the amount.
IsStakeAmountApproved(l, amount) == l.stakeApproved \/ BN(amount) <= 0

LedgerApproveStake(l) == [l EXCEPT !.stakeApproved = TRUE]

LedgerApproveBounty(l) == [l EXCEPT !.bountyApproved = TRUE]

LedgerAcceptsStake(l, a) ==
    /\ l.stakeApproved /\ l.bountyApproved
    /\ BN(a.amount) > 0
    /\ a.nonce = ToString(l.nonce)
    /\ l.nonce < MaxNonce

LedgerStake(l, r, a) ==
    [l EXCEPT !.nonce = @ + 1,
              !.outbox = IF /\ @ = UNDECLARED
                            /\ LedgerHash(r) =
                                 getStakeMessageHash(a.amount, a.beneficiary, GatewayAddress,
                                     a.nonce, a.gasPrice, a.gasLimit, a.from, a.hashLock)
                         THEN DECLARED ELSE @]

-----------------------------------------------------------------------------
(* Actions: Stake *)

\* A caller may call again once the last invocation is over, and then repeats
\* the same operation with the same request.
MayCall(c, op) ==
    /\ facilitator.st = "constructed"
    /\ task[c].op = "none"
    /\ prev[c].op \in {"none", op}

At(c, th, label) == task[c].pc[th] = label

StakeCall(c) ==
    /\ MayCall(c, "stake")
    /\ task' = [task EXCEPT ![c] = stake(IdleTask, req)]
    /\ UNCHANGED <<ledger, req, prev, facilitator>>

StakeAllowanceRead(c) ==
    /\ At(c, "stake", "awaitIsStakeAmountApproved")
    /\ \E failed \in BOOLEAN :
          task' = [task EXCEPT ![c] =
                      StakeOnIsStakeAmountApproved(@, req, failed,
                          IsStakeAmountApproved(ledger, req.amount))]
    /\ UNCHANGED <<ledger, req, prev, facilitator>>

StakeApprovalSettled(c) ==
    /\ At(c, "stake", "awaitApproveStakeAmount")
    /\ \E ok \in BOOLEAN :
          /\ task' = [task EXCEPT ![c] = StakeOnApproveStakeAmount(@, ok)]
          /\ ledger' = IF ok THEN LedgerApproveStake(ledger) ELSE ledger
    /\ UNCHANGED <<req, prev, facilitator>>

StakeBountyRead(c) ==
    /\ At(c, "stake", "awaitIsBountyAmountApproved")
    /\ \E failed \in BOOLEAN :
          task' = [task EXCEPT ![c] =
                      StakeOnIsBountyAmountApproved(@, failed, ledger.bountyApproved)]
    /\ UNCHANGED <<ledger, req, prev, facilitator>>

StakeBountyApprovalSettled(c) ==
    /\ At(c, "stake", "awaitApproveBountyAmount")
    /\ \E ok \in BOOLEAN :
          /\ task' = [task EXCEPT ![c] = StakeOnApproveBountyAmount(@, ok)]
          /\ ledger' = IF ok THEN LedgerApproveBounty(ledger) ELSE ledger
    /\ UNCHANGED <<req, prev, facilitator>>

StakeNonceRead(c) ==
    /\ At(c, "stake", "awaitGetNonce")
    /\ \E ok \in BOOLEAN :
          task' = [task EXCEPT ![c] = StakeOnGetNonce(@, req, ok, ToString(ledger.nonce))]
    /\ UNCHANGED <<ledger, req, prev, facilitator>>

StakeSettled(c) ==
    /\ At(c, "stake", "awaitStake")
    /\ \E ok \in BOOLEAN :
          /\ ok => LedgerAcceptsStake(ledger, task[c].loc.stakeArgs)
          /\ task' = [task EXCEPT ![c] = StakeOnStake(@, ok)]
          /\ ledger' = IF ok THEN LedgerStake(ledger, req, task[c].loc.stakeArgs) ELSE ledger
    /\ UNCHANGED <<req, prev, facilitator>>

-----------------------------------------------------------------------------
(* Facilitator.performProgressStake / performProgressMint / performProgress *)

\* Lines 561-572 and 618-629: the checks, none of which returns.
ProgressChecks(messageHash, unlockSecret, txOption) ==
    << <<messageHash = <<>>, "Invalid message hash.">>,
       <<TypeOf(unlockSecret) # "string", "Invalid unlock secret.">>,
       <<~txOption.def, "Invalid transaction option.">> >>

\* A faulty variant of CannotProgress that also refuses a message already
\* progressed.
CannotProgressOrDone(status) ==
    status \in {UNDECLARED, REVOCATION_DECLARED, REVOKED, PROGRESSED}

\* Lines 581-585 and 637-641: the statuses from which a message cannot be progressed.
CannotProgress(status) == status \in {UNDECLARED, REVOCATION_DECLARED, REVOKED}

\* A faulty variant of AlreadyProgressed that never recognises a progressed
\* message, so that a retry submits the progress transaction again.
AlreadyProgressedNever(status) == FALSE

\* Lines 589 and 645: the status of a message already progressed.
AlreadyProgressed(status) == status = PROGRESSED

\* Lines 559-576: the checks and the outbox read.
performProgressStake(t, messageHash, unlockSecret, txOption) ==
    [Call(t, "getOutboxMessageStatus") EXCEPT
        !.res.pps = RejectEach(@, Violations(ProgressChecks(messageHash, unlockSecret, txOption))),
        !.loc.ppHash = messageHash,
        !.pc.pps = "awaitOutbox"]

\* Lines 586-588: a message that cannot be progressed on origin.
StakeNotProgressable(p) == Reject(p, {"Message cannot be progressed."})

\* Lines 574-603: the outbox status has been read (no handler: a rejection throws).
PpsOnOutboxStatus(t, failed, status) ==
    IF failed THEN Throw(t, "pps")
    ELSE LET t1 == [t EXCEPT !.loc.psStatus = status]
         IN  IF CannotProgress(status)
             THEN [t1 EXCEPT !.res.pps = StakeNotProgressable(@), !.pc.pps = "done"]
             ELSE IF AlreadyProgressed(status)
                  THEN [t1 EXCEPT !.res.pps = Resolve(@, {"true"}), !.pc.pps = "done"]
                  ELSE [Call(t1, "progressStake") EXCEPT !.pc.pps = "awaitProgressStake"]

\* Lines 595-602: gateway.progressStake has settled.
PpsOnProgressStake(t, ok) ==
    [t EXCEPT !.pc.pps = "done",
              !.loc.progressStakeTx = TxOutcome(ok),
              !.res.pps = IF ok THEN Resolve(@, {"progressStakeResult"})
                          ELSE Reject(@, {"progressStake failed"})]

\* Lines 616-633: the checks and the inbox read.
performProgressMint(t, messageHash, unlockSecret, txOption) ==
    [Call(t, "getInboxMessageStatus") EXCEPT
        !.res.ppm = RejectEach(@, Violations(ProgressChecks(messageHash, unlockSecret, txOption))),
        !.loc.ppHash = messageHash,
        !.pc.ppm = "awaitInbox"]

\* Lines 642-644: a message that cannot be progressed on auxiliary: onResolve(err).
MintNotProgressable(p) == Resolve(p, {"Message cannot be progressed."})

\* Lines 631-659: the inbox status has been read (no handler: a rejection throws).
PpmOnInboxStatus(t, failed, status) ==
    IF failed THEN Throw(t, "ppm")
    ELSE LET t1 == [t EXCEPT !.loc.pmStatus = status]
         IN  IF CannotProgress(status)
             THEN [t1 EXCEPT !.res.ppm = MintNotProgressable(@), !.pc.ppm = "done"]
             ELSE IF AlreadyProgressed(status)
                  THEN [t1 EXCEPT !.res.ppm = Resolve(@, {"true"}), !.pc.ppm = "done"]
                  ELSE [Call(t1, "progressMint") EXCEPT !.pc.ppm = "awaitProgressMint"]

\* Lines 651-658: coGateway.progressMint has settled.
PpmOnProgressMint(t, ok) ==
    [t EXCEPT !.pc.ppm = "done",
              !.loc.progressMintTx = TxOutcome(ok),
              !.res.ppm = IF ok THEN Resolve(@, {"progressMintResult"})
                          ELSE Reject(@, {"progressMint failed"})]

\* Lines 520-535: performProgress's own checks.
PerformProgressChecks(messageHash, unlockSecret, txOptionOrigin, txOptionAuxiliary) ==
    << <<messageHash = <<>>, "Invalid message hash.">>,
       <<TypeOf(unlockSecret) # "string", "Invalid unlock secret.">>,
       <<~txOptionOrigin.def, "Invalid origin transaction option.">>,
       <<~txOptionAuxiliary.def, "Invalid auxiliary transaction option.">> >>

\* A faulty variant of performProgress that starts progress-stake only.
performProgressStakeOnly(t, messageHash, unlockSecret, txOptionOrigin, txOptionAuxiliary) ==
    performProgressStake(
        [t EXCEPT !.pc.pp = "awaitAll",
                  !.res.pp = RejectEach(@, Violations(PerformProgressChecks(
                                messageHash, unlockSecret, txOptionOrigin, txOptionAuxiliary)))],
        messageHash, unlockSecret, txOptionOrigin)

\* Lines 511-540: the checks, then both progress operations are started.
performProgress(t, messageHash, unlockSecret, txOptionOrigin, txOptionAuxiliary) ==
    LET t1 == [t EXCEPT
                 !.pc.pp = "awaitAll",
                 !.res.pp = RejectEach(@, Violations(PerformProgressChecks(
                                messageHash, unlockSecret, txOptionOrigin, txOptionAuxiliary)))]
    IN  performProgressMint(
            performProgressStake(t1, messageHash, unlockSecret, txOptionOrigin),
            messageHash, unlockSecret, txOptionAuxiliary)

\* Lines 537-546: Promise.all of the two progress promises, given their states
\* before (a, b) and after (a2, b2) a step: it rejects with the rejection that
\* comes first and resolves when both have resolved.
JoinProgress(p, a, b, a2, b2) ==
    IF a.st = "pending" /\ a2.st = "rejected" THEN Reject(p, a2.val)
    ELSE IF b.st = "pending" /\ b2.st = "rejected" THEN Reject(p, b2.val)
    ELSE IF a2.st = "resolved" /\ b2.st = "resolved" THEN Resolve(p, {"true"})
    ELSE p

\* The auxiliary and origin ledgers: a progress transaction is accepted once,
\* from Declared, and only with the secret of the message's hash lock.
LedgerAcceptsProgress(status, r, h, secret) ==
    /\ h = LedgerHash(r)
    /\ status = DECLARED
    /\ Unlocks(secret, r.hashLock)

LedgerProgressStake(l) == [l EXCEPT !.outbox = PROGRESSED]

LedgerProgressMint(l) == [l EXCEPT !.inbox = PROGRESSED]

-----------------------------------------------------------------------------
(* Facilitator.confirmStakeIntent / getProof *)

\* Lines 377-408: the checks, none of which returns.
ConfirmChecks(r) ==
    << <<~IsAddress(r.staker), "Invalid staker address.">>,
       <<BN(r.amount) = 0, "Stake amount must not be zero.">>,
       <<~IsAddress(r.beneficiary), "Invalid beneficiary address.">>,
       <<TypeOf(r.gasPrice) # "string", "Invalid gas price.">>,
       <<TypeOf(r.gasLimit) # "string", "Invalid gas limit.">>,
       <<TypeOf(r.nonce) # "string", "Invalid staker nonce.">>,
       <<~r.txOptionAuxiliary.def, "Invalid transaction options.">>,
       <<r.txOptionAuxiliary.def /\ ~IsAddress(r.txOptionAuxiliary.from),
         "Invalid facilitator address.">> >>

\* Lines 411-420: the message hash confirmStakeIntent reads the statuses of.
ConfirmMessageHash(r) ==
    getStakeMessageHash(r.amount, r.beneficiary, GatewayAddress, r.nonce,
                        r.gasPrice, r.gasLimit, r.staker, r.hashLock)

\* Lines 363-426: the checks, the message hash and the outbox read.
\* `txOptions.from` of a missing txOptions throws at line 405.
confirmStakeIntent(t, r) ==
    LET t1 == [t EXCEPT !.res.csi = RejectEach(@, Violations(ConfirmChecks(r)))]
    IN  IF ~r.txOptionAuxiliary.def
        THEN Throw(t1, "csi")
        ELSE [Call(t1, "getOutboxMessageStatus") EXCEPT
                 !.loc.csiHash = ConfirmMessageHash(r),
                 !.pc.csi = "awaitOutbox"]

\* Lines 424-439: the outbox status has been read (no handler: a rejection
\* throws); an undeclared message rejects, and the inbox is read all the same.
CsiOnOutboxStatus(t, failed, status) ==
    IF failed THEN Throw(t, "csi")
    ELSE [Call(t, "getInboxMessageStatus") EXCEPT
             !.loc.stakeMessageStatus = status,
             !.res.csi = IF status = UNDECLARED
                         THEN Reject(@, {"Stake message hash must be declared."})
                         ELSE @,
             !.pc.csi = "awaitInbox"]

\* A faulty variant of AlreadyConfirmed that leaves out Progressed, so that a
\* message already minted is proved and confirmed again.
AlreadyConfirmedNoProgressed(status) == status \in {DECLARED, REVOKED}

\* A faulty variant of AlreadyConfirmed that leaves out Declared, so that a
\* second confirmation is attempted on a message already declared.
AlreadyConfirmedNoDeclared(status) == status \in {PROGRESSED, REVOKED}

\* A faulty variant of AlreadyConfirmed that leaves out Revoked, so that a
\* revoked message is proved and confirmed.
AlreadyConfirmedNoRevoked(status) == status \in {DECLARED, PROGRESSED}

\* A faulty variant of AlreadyConfirmed that also takes a revocation declared
\* on auxiliary for a confirmed intent.
AlreadyConfirmedOrRevoking(status) ==
    status \in {DECLARED, PROGRESSED, REVOKED, REVOCATION_DECLARED}

\* Lines 445-449: the inbox statuses that mean the intent is already confirmed.
AlreadyConfirmed(status) == status \in {DECLARED, PROGRESSED, REVOKED}

\* Lines 671-675: getProof starts by reading the latest anchor.
getProof(t) ==
    [Call(t, "getLatestAnchorInfo") EXCEPT !.pc.gp = "awaitAnchor"]

\* Lines 437-453: the inbox status has been read (no handler).
CsiOnInboxStatus(t, failed, status) ==
    IF failed THEN Throw(t, "csi")
    ELSE LET t1 == [t EXCEPT !.loc.mintMessageStatus = status]
         IN  IF AlreadyConfirmed(status)
             THEN [t1 EXCEPT !.res.csi = Resolve(@, {"true"}), !.pc.csi = "done"]
             ELSE getProof([t1 EXCEPT !.pc.csi = "awaitGetProof"])

\* A faulty variant of ProofBlockHeight that prefixes the decimal numeral
\* instead of converting it to hexadecimal.
ProofBlockHeightDecimal(latestAnchorHeight) ==
    IF latestAnchorHeight = "10" THEN "0x10" ELSE ToHex(latestAnchorHeight)

\* Lines 685-687: the block the proof is asked at.
ProofBlockHeight(latestAnchorHeight) == ToHex(latestAnchorHeight)

\* Line 693: the account the proof is asked for.
ProofAccount == GatewayAddress

\* Line 694: the storage keys the proof is asked for.
ProofKeys(messageHash) == {messageHash}

\* Lines 675-696: the anchor has been read (no handler: a rejection throws and
\* getProof's promise never settles); the proof is requested.
GpOnAnchor(t, failed, height) ==
    IF failed THEN Throw(t, "gp")
    ELSE [Call(t, "getOutboxProof") EXCEPT
             !.loc.blockHeight = height,
             !.loc.proofBlock = ProofBlockHeight(height),
             !.loc.proofAccount = ProofAccount,
             !.loc.proofKeys = ProofKeys(t.loc.csiHash),
             !.pc.gp = "awaitProof"]

\* Lines 697-711 and 453-463, 494-496: the proof request has settled; with a
\* proof, proveGateway is submitted at the anchor's height.
GpOnProof(t, ok) ==
    IF ok
    THEN [Call(t, "proveGateway") EXCEPT
             !.res.gp = Resolve(@, {"proofData"}),
             !.pc.gp = "done",
             !.loc.proveBlock = t.loc.blockHeight,
             !.pc.csi = "awaitProveGateway"]
    ELSE [t EXCEPT !.res.gp = Reject(@, {"getOutboxProof failed"}),
                   !.pc.gp = "done",
                   !.res.csi = Reject(@, {"getOutboxProof failed"}),
                   !.pc.csi = "done"]

\* A faulty variant of CsiOnProveGateway that submits confirm-intent whether
\* or not prove-account succeeded.
CsiOnProveGatewayAnyway(t, ok) ==
    [Call(t, "confirmStakeIntent") EXCEPT
        !.loc.proveTx = TxOutcome(ok),
        !.loc.confirmBlock = t.loc.blockHeight,
        !.pc.csi = "awaitConfirmStakeIntent"]

\* Lines 464-478 and 487-492: proveGateway has settled.
CsiOnProveGateway(t, ok) ==
    IF ok
    THEN [Call(t, "confirmStakeIntent") EXCEPT
             !.loc.proveTx = TxOutcome(ok),
             !.loc.confirmBlock = t.loc.blockHeight,
             !.pc.csi = "awaitConfirmStakeIntent"]
    ELSE [t EXCEPT !.loc.proveTx = TxOutcome(ok),
                   !.res.csi = Reject(@, {"proveGateway failed"}), !.pc.csi = "done"]

\* Lines 479-485: coGateway.confirmStakeIntent has settled.
CsiOnConfirmStakeIntent(t, ok) ==
    [t EXCEPT !.pc.csi = "done",
              !.res.csi = IF ok THEN Resolve(@, {"confirmStakeIntentResult"})
                          ELSE Reject(@, {"confirmStakeIntent failed"})]

\* The auxiliary ledger confirms an intent once, for a message declared on origin.
LedgerAcceptsConfirm(l) == l.inbox = UNDECLARED /\ l.outbox = DECLARED

LedgerConfirm(l) == [l EXCEPT !.inbox = DECLARED]

-----------------------------------------------------------------------------
(* Facilitator.progressStake (the composite) *)

\* Lines 249-303: the checks, none of which returns.
CompositeChecks(r) ==
    << <<~IsAddress(r.staker), "Invalid staker address.">>,
       <<BN(r.amount) = 0, "Stake amount must not be zero.">>,
       <<~IsAddress(r.beneficiary), "Invalid beneficiary address.">>,
       <<r.gasPrice = Undef, "Invalid gas price.">>,
       <<r.gasLimit = Undef, "Invalid gas limit.">>,
       <<r.nonce = Undef, "Invalid staker nonce.">>,
       <<~r.txOptionOrigin.def, "Invalid transaction options for origin chain.">>,
       <<~r.txOptionAuxiliary.def, "Invalid transaction options for auxiliary chain.">>,
       <<r.txOptionOrigin.def /\ ~IsAddress(r.txOptionOrigin.from),
         "Invalid origin chain facilitator address.">>,
       <<r.txOptionOrigin.def /\ r.txOptionAuxiliary.def
            /\ ~IsAddress(r.txOptionAuxiliary.from),
         "Invalid auxiliary chain facilitator address.">> >>

\* A faulty variant of ProgressMessageHash that hands the gas limit over
\* before the gas price.
ProgressMessageHashGasSwapped(r) ==
    getStakeMessageHash(r.amount, r.beneficiary, GatewayAddress, r.nonce,
                        r.gasLimit, r.gasPrice, r.staker, r.hashLock)

\* Lines 317-326: the message hash handed to both progress operations.
ProgressMessageHash(r) ==
    getStakeMessageHash(r.amount, r.beneficiary, GatewayAddress, r.nonce,
                        r.gasPrice, r.gasLimit, r.staker, r.hashLock)

\* Lines 334-339: the composite settles as performProgress has settled.
CompAfterProgress(t) ==
    IF t.pc.comp = "awaitProgress" /\ t.res.pp.st # "pending"
    THEN [t EXCEPT !.pc.comp = "done", !.pc.pp = "done",
                   !.res.comp = IF t.res.pp.st = "resolved"
                                THEN Resolve(@, {"true"}) ELSE Reject(@, t.res.pp.val)]
    ELSE t

\* Lines 537-546, after a step from t0 to t: the join of the two progress promises.
AfterProgressStep(t0, t) ==
    IF t.pc.pp = "awaitAll"
    THEN CompAfterProgress(
            [t EXCEPT !.res.pp = JoinProgress(@, t0.res.pps, t0.res.ppm,
                                              t.res.pps, t.res.ppm)])
    ELSE t

\* Lines 316-344: the composite's handlers on confirmStakeIntent's promise:
\* once it resolves, performProgress is started; a rejection rejects the composite.
CompAfterConfirm(t, r) ==
    IF t.pc.comp = "awaitConfirm" /\ t.res.csi.st = "resolved"
    THEN AfterProgressStep(t,
            performProgress([t EXCEPT !.pc.comp = "awaitProgress"],
                            ProgressMessageHash(r), r.unlockSecret,
                            r.txOptionOrigin, r.txOptionAuxiliary))
    ELSE IF t.pc.comp = "awaitConfirm" /\ t.res.csi.st = "rejected"
         THEN [t EXCEPT !.pc.comp = "done", !.res.comp = Reject(@, t.res.csi.val)]
         ELSE t

\* Lines 234-315: the checks, then confirmStakeIntent is called.  Reading
\* `.from` of a missing txOption throws at line 293 or 298; the Promise
\* constructor turns that into a rejection and nothing is called.
progressStake(t, r) ==
    LET t1 == [t EXCEPT !.op = "composite",
                        !.res.comp = RejectEach(@, Violations(CompositeChecks(r)))]
    IN  IF ~r.txOptionOrigin.def \/ ~r.txOptionAuxiliary.def
        THEN [t1 EXCEPT !.pc.comp = "done"]
        ELSE CompAfterConfirm(confirmStakeIntent([t1 EXCEPT !.pc.comp = "awaitConfirm"], r), r)

\* What the caller's promise is: the promise of the operation it called.
TopThread(op) ==
    CASE op = "stake" -> "stake"
      [] op = "confirm" -> "csi"
      [] op = "pps" -> "pps"
      [] op = "ppm" -> "ppm"
      [] op = "composite" -> "comp"
      [] OTHER -> "stake"

Result(t) == t.res[TopThread(t.op)]

\* Labels at which a thread waits for an adapter, anchor or proof-provider call.
AdapterWaits ==
    {"awaitIsStakeAmountApproved", "awaitApproveStakeAmount",
     "awaitIsBountyAmountApproved", "awaitApproveBountyAmount",
     "awaitGetNonce", "awaitStake", "awaitOutbox", "awaitInbox",
     "awaitAnchor", "awaitProof", "awaitProveGateway", "awaitConfirmStakeIntent",
     "awaitProgressStake", "awaitProgressMint"}

\* No call of the invocation is outstanding: nothing will run for it any more.
Quiescent(t) == \A th \in Threads : t.pc[th] \notin AdapterWaits

-----------------------------------------------------------------------------
(* Actions: ConfirmStakeIntent, progress, the composite *)

Step(c, t) == task' = [task EXCEPT ![c] = t]

ConfirmCall(c) ==
    /\ MayCall(c, "confirm")
    /\ Step(c, confirmStakeIntent([IdleTask EXCEPT !.op = "confirm"], req))
    /\ UNCHANGED <<ledger, req, prev, facilitator>>

ProgressStakeCall(c) ==
    /\ MayCall(c, "pps")
    /\ Step(c, performProgressStake([IdleTask EXCEPT !.op = "pps"],
                   ProgressMessageHash(req), req.unlockSecret, req.txOptionOrigin))
    /\ UNCHANGED <<ledger, req, prev, facilitator>>

ProgressMintCall(c) ==
    /\ MayCall(c, "ppm")
    /\ Step(c, performProgressMint([IdleTask EXCEPT !.op = "ppm"],
                   ProgressMessageHash(req), req.unlockSecret, req.txOptionAuxiliary))
    /\ UNCHANGED <<ledger, req, prev, facilitator>>

CompositeCall(c) ==
    /\ MayCall(c, "composite")
    /\ Step(c, progressStake(IdleTask, req))
    /\ UNCHANGED <<ledger, req, prev, facilitator>>

CsiOutboxRead(c) ==
    /\ At(c, "csi", "awaitOutbox")
    /\ \E failed \in BOOLEAN :
          Step(c, CompAfterConfirm(
                     CsiOnOutboxStatus(task[c], failed,
                         OutboxStatus(ledger, req, task[c].loc.csiHash)), req))
    /\ UNCHANGED <<ledger, req, prev, facilitator>>

CsiInboxRead(c) ==
    /\ At(c, "csi", "awaitInbox")
    /\ \E failed \in BOOLEAN :
          Step(c, CompAfterConfirm(
                     CsiOnInboxStatus(task[c], failed,
                         InboxStatus(ledger, req, task[c].loc.csiHash)), req))
    /\ UNCHANGED <<ledger, req, prev, facilitator>>

GpAnchorRead(c) ==
    /\ At(c, "gp", "awaitAnchor")
    /\ \E failed \in BOOLEAN, h \in AnchorHeights :
          Step(c, GpOnAnchor(task[c], failed, h))
    /\ UNCHANGED <<ledger, req, prev, facilitator>>

GpProofSettled(c) ==
    /\ At(c, "gp", "awaitProof")
    /\ \E ok \in BOOLEAN :
          Step(c, CompAfterConfirm(GpOnProof(task[c], ok), req))
    /\ UNCHANGED <<ledger, req, prev, facilitator>>

CsiProveSettled(c) ==
    /\ At(c, "csi", "awaitProveGateway")
    /\ \E ok \in BOOLEAN :
          Step(c, CompAfterConfirm(CsiOnProveGateway(task[c], ok), req))
    /\ UNCHANGED <<ledger, req, prev, facilitator>>

CsiConfirmSettled(c) ==
    /\ At(c, "csi", "awaitConfirmStakeIntent")
    /\ \E ok \in BOOLEAN :
          /\ ok => LedgerAcceptsConfirm(ledger)
          /\ Step(c, CompAfterConfirm(CsiOnConfirmStakeIntent(task[c], ok), req))
          /\ ledger' = IF ok THEN LedgerConfirm(ledger) ELSE ledger
    /\ UNCHANGED <<req, prev, facilitator>>

PpsOutboxRead(c) ==
    /\ At(c, "pps", "awaitOutbox")
    /\ \E failed \in BOOLEAN :
          Step(c, AfterProgressStep(task[c],
                     PpsOnOutboxStatus(task[c], failed,
                         OutboxStatus(ledger, req, task[c].loc.ppHash))))
    /\ UNCHANGED <<ledger, req, prev, facilitator>>

PpsProgressSettled(c) ==
    /\ At(c, "pps", "awaitProgressStake")
    /\ \E ok \in BOOLEAN :
          /\ ok => LedgerAcceptsProgress(ledger.outbox, req, task[c].loc.ppHash,
                                         req.unlockSecret)
          /\ Step(c, AfterProgressStep(task[c], PpsOnProgressStake(task[c], ok)))
          /\ ledger' = IF ok THEN LedgerProgressStake(ledger) ELSE ledger
    /\ UNCHANGED <<req, prev, facilitator>>

PpmInboxRead(c) ==
    /\ At(c, "ppm", "awaitInbox")
    /\ \E failed \in BOOLEAN :
          Step(c, AfterProgressStep(task[c],
                     PpmOnInboxStatus(task[c], failed,
                         InboxStatus(ledger, req, task[c].loc.ppHash))))
    /\ UNCHANGED <<ledger, req, prev, facilitator>>

\* A faulty variant of PpmProgressSettled in which the progress transaction
\* of performProgressMint lands on the origin ledger.
PpmProgressSettledOnOrigin(c) ==
    /\ At(c, "ppm", "awaitProgressMint")
    /\ \E ok \in BOOLEAN :
          /\ ok => LedgerAcceptsProgress(ledger.outbox, req, task[c].loc.ppHash,
                                         req.unlockSecret)
          /\ Step(c, AfterProgressStep(task[c], PpmOnProgressMint(task[c], ok)))
          /\ ledger' = IF ok THEN LedgerProgressStake(ledger) ELSE ledger
    /\ UNCHANGED <<req, prev, facilitator>>

PpmProgressSettled(c) ==
    /\ At(c, "ppm", "awaitProgressMint")
    /\ \E ok \in BOOLEAN :
          /\ ok => LedgerAcceptsProgress(ledger.inbox, req, task[c].loc.ppHash,
                                         req.unlockSecret)
          /\ Step(c, AfterProgressStep(task[c], PpmOnProgressMint(task[c], ok)))
          /\ ledger' = IF ok THEN LedgerProgressMint(ledger) ELSE ledger
    /\ UNCHANGED <<req, prev, facilitator>>

\* The methods class Facilitator defines.
FacilitatorMethods ==
    {"stake", "progressStake", "confirmStakeIntent", "performProgress",
     "performProgressStake", "performProgressMint", "getProof", "getHashLock"}

\* The operations the model runs, by the names an invocation bears.
Operations == {"stake", "confirm", "pps", "ppm", "composite"}

\* The redeeming calls the README makes on a facilitator.
RedeemMethods == {"redeem", "progressRedeem"}

\* The bounty amount of the README's gateway, and the values a redeem
\* transaction's options carry: none, the bounty amount, another amount.
BountyAmount == "100"

RedeemValues == {Undef, BountyAmount, "50"}

\* facilitator[method](...): calling a member the class does not define throws
\* a TypeError at the call, and no promise is returned.
Invoke(t, method, value) ==
    [t EXCEPT !.op = method,
              !.loc.redeemValue = value,
              !.loc.thrown = IF method \in FacilitatorMethods
                             THEN Undef ELSE "TypeError"]

RedeemCall(c) ==
    \E method \in RedeemMethods, value \in RedeemValues :
        /\ MayCall(c, method)
        /\ Step(c, Invoke(IdleTask, method, value))
        /\ UNCHANGED <<ledger, req, prev, facilitator>>

\* The caller is done with an invocation that has nothing outstanding; what it
\* did is remembered for the next call.
Return(c) ==
    /\ task[c].op # "none"
    /\ Quiescent(task[c])
    /\ prev' = [prev EXCEPT ![c] =
                   [op |-> task[c].op, res |-> task[c].res, log |-> task[c].log]]
    /\ Step(c, IdleTask)
    /\ UNCHANGED <<ledger, req, facilitator>>

\* One caller at a time.
Callers == {1}

Next ==
    \E c \in Callers :
        \/ StakeCall(c)
        \/ StakeAllowanceRead(c)
        \/ StakeApprovalSettled(c)
        \/ StakeBountyRead(c)
        \/ StakeBountyApprovalSettled(c)
        \/ StakeNonceRead(c)
        \/ StakeSettled(c)
        \/ ConfirmCall(c)
        \/ ProgressStakeCall(c)
        \/ ProgressMintCall(c)
        \/ CompositeCall(c)
        \/ CsiOutboxRead(c)
        \/ CsiInboxRead(c)
        \/ GpAnchorRead(c)
        \/ GpProofSettled(c)
        \/ CsiProveSettled(c)
        \/ CsiConfirmSettled(c)
        \/ PpsOutboxRead(c)
        \/ PpsProgressSettled(c)
        \/ PpmInboxRead(c)
        \/ PpmProgressSettled(c)
        \/ RedeemCall(c)
        \/ Return(c)

Spec == Init /\ [][Next]_vars

-----------------------------------------------------------------------------
(* Two concurrent invocations *)

\* The message both invocations work on: declared on origin, not revoked.
ConcLedgers ==
    {l \in Ledgers : l.outbox = DECLARED /\ l.inbox \in {UNDECLARED, DECLARED, PROGRESSED}}

ConcInit ==
    /\ ledger \in ConcLedgers
    /\ req = BaseReq
    /\ task = [c \in Clients |-> IdleTask]
    /\ prev = [c \in Clients |-> NoPrev]
    /\ facilitator = constructor(GoodArgs)

\* Each client calls ConfirmStakeIntent or the composite once; every read,
\* the proof request and prove-account succeed, and a ledger refuses a
\* transaction only because the transition it asks for was already made.
ReadsSucceed(c) == \A th \in Threads : task'[c].pc[th] # "dead"

ConcCsiOutboxRead(c) == CsiOutboxRead(c) /\ ReadsSucceed(c)

ConcCsiInboxRead(c) == CsiInboxRead(c) /\ ReadsSucceed(c)

ConcGpAnchorRead(c) == GpAnchorRead(c) /\ ReadsSucceed(c)

ConcGpProofSettled(c) == GpProofSettled(c) /\ task'[c].res.gp.st = "resolved"

ConcCsiProveSettled(c) == CsiProveSettled(c) /\ task'[c].loc.proveTx = "accepted"

ConcCsiConfirmSettled(c) ==
    /\ CsiConfirmSettled(c)
    /\ (LedgerAcceptsConfirm(ledger) => ledger' # ledger)

ConcPpsOutboxRead(c) == PpsOutboxRead(c) /\ ReadsSucceed(c)

ConcPpsProgressSettled(c) ==
    /\ PpsProgressSettled(c)
    /\ (LedgerAcceptsProgress(ledger.outbox, req, task[c].loc.ppHash, req.unlockSecret)
          => task'[c].loc.progressStakeTx = "accepted")

ConcPpmInboxRead(c) == PpmInboxRead(c) /\ ReadsSucceed(c)

ConcPpmProgressSettled(c) ==
    /\ PpmProgressSettled(c)
    /\ (LedgerAcceptsProgress(ledger.inbox, req, task[c].loc.ppHash, req.unlockSecret)
          => task'[c].loc.progressMintTx = "accepted")

ConcNext ==
    \E c \in Clients :
        \/ ConfirmCall(c)
        \/ CompositeCall(c)
        \/ ConcCsiOutboxRead(c)
        \/ ConcCsiInboxRead(c)
        \/ ConcGpAnchorRead(c)
        \/ ConcGpProofSettled(c)
        \/ ConcCsiProveSettled(c)
        \/ ConcCsiConfirmSettled(c)
        \/ ConcPpsOutboxRead(c)
        \/ ConcPpsProgressSettled(c)
        \/ ConcPpmInboxRead(c)
        \/ ConcPpmProgressSettled(c)

SpecConc == ConcInit /\ [][ConcNext]_vars

-----------------------------------------------------------------------------
(* Construction *)

\* A facilitator is about to be constructed, with any of the arguments; no
\* method has been called, the ledgers are untouched.
NewInit ==
    /\ ledger = [outbox |-> UNDECLARED, inbox |-> UNDECLARED,
                 stakeApproved |-> FALSE, bountyApproved |-> FALSE, nonce |-> 1]
    /\ req = BaseReq
    /\ task = [c \in Clients |-> IdleTask]
    /\ prev = [c \in Clients |-> NoPrev]
    /\ facilitator \in {NewFacilitator(a) : a \in ConstructorArgs}

Construct ==
    /\ facilitator.st = "new"
    /\ facilitator' = constructor(facilitator.args)
    /\ UNCHANGED <<ledger, req, task, prev>>

SpecNew == NewInit /\ [][Construct]_vars

-----------------------------------------------------------------------------
(* The properties *)

ApprovalAndStakeTxs == {"approveStakeAmount", "approveBountyAmount", "stake"}

ConfirmTxs == {"proveGateway", "confirmStakeIntent"}

\* What ConfirmStakeIntent does beyond reading the two statuses.
ConfirmWork == {"getLatestAnchorInfo", "getOutboxProof"} \cup ConfirmTxs

\* A Stake request that violates one of Stake's stated preconditions.
StakeRequestInvalid(r) ==
    \/ r.staker \notin Addresses
    \/ r.beneficiary \notin Addresses
    \/ r.amount = "0"
    \/ r.gasPrice = Undef
    \/ r.gasLimit = Undef
    \/ r.txOptionOrigin = NoTxOptions
    \/ r.txOptionOrigin.from \notin Addresses

\* A ConfirmStakeIntent request that meets every stated precondition.
ConfirmRequestWellFormed(r) ==
    /\ r.staker \in Addresses
    /\ r.beneficiary \in Addresses
    /\ r.amount \notin {"0", Undef}
    /\ \A x \in {r.gasPrice, r.gasLimit, r.nonce} : x \notin NumberVals \cup {Undef}
    /\ r.txOptionAuxiliary # NoTxOptions
    /\ r.txOptionAuxiliary.from \in Addresses

\* A progress request (composite or single-ledger) that meets every stated
\* precondition: a confirmable request, a positive amount, a secret, and
\* transaction options for both ledgers.
ProgressRequestWellFormed(r) ==
    /\ ConfirmRequestWellFormed(r)
    /\ r.amount = "1"
    /\ r.unlockSecret \notin NumberVals \cup {Undef}
    /\ r.txOptionOrigin # NoTxOptions
    /\ r.txOptionOrigin.from \in Addresses

\* C1: a Stake call whose input is invalid fails with a validation error and
\* submits no approval and no stake transaction.
C1_StakeInvalidInputNoSubmission ==
    \A c \in Callers :
        (task[c].op = "stake" /\ StakeRequestInvalid(req))
        => /\ task[c].res.stake.st = "rejected"
           /\ Calls(task[c].log, ApprovalAndStakeTxs) = <<>>

\* C2: ConfirmStakeIntent that reads the outbox status Undeclared fails and
\* submits neither prove-account nor confirm-intent, whatever the inbox status.
C2_ConfirmUndeclaredNoSubmission ==
    \A c \in Callers :
        ( /\ task[c].op = "confirm"
          /\ ConfirmRequestWellFormed(req)
          /\ task[c].loc.stakeMessageStatus = UNDECLARED )
        => /\ task[c].res.csi.st = "rejected"
           /\ Calls(task[c].log, ConfirmTxs) = <<>>

\* C3: ConfirmStakeIntent is idempotent.  (a) A well-formed call that reads an
\* outbox status other than Undeclared and the inbox status Declared,
\* Progressed or Revoked has succeeded, without reading the anchor, requesting
\* a proof or submitting a transaction.  (b) A call that follows a successful
\* call with the same parameters reads no anchor, requests no proof and
\* submits nothing, and has succeeded once it has read the inbox status.
C3_ConfirmIdempotent ==
    \A c \in Callers :
        LET t == task[c] IN
        /\ ( /\ t.op \in {"confirm", "composite"}
             /\ ConfirmRequestWellFormed(req)
             /\ t.loc.stakeMessageStatus \in MessageStatus \ {UNDECLARED}
             /\ t.loc.mintMessageStatus \in {DECLARED, PROGRESSED, REVOKED} )
           => /\ t.res.csi.st = "resolved"
              /\ Calls(t.log, ConfirmWork) = <<>>
        /\ ( /\ t.op = "confirm"
             /\ prev[c].op = "confirm"
             /\ prev[c].res.csi.st = "resolved" )
           => /\ Calls(t.log, ConfirmWork) = <<>>
              /\ t.loc.mintMessageStatus # Undef => t.res.csi.st = "resolved"

\* C3's case: a first call submitted confirm-intent and succeeded, and the
\* second call has read the status Declared it wrote and has succeeded.
C3_Witness ==
    \E c \in Callers :
        /\ prev[c].op = "confirm"
        /\ prev[c].res.csi.st = "resolved"
        /\ Calls(prev[c].log, {"confirmStakeIntent"}) # <<>>
        /\ task[c].op = "confirm"
        /\ task[c].loc.mintMessageStatus = DECLARED
        /\ task[c].res.csi.st = "resolved"

\* C4: performProgressStake and performProgressMint each fail, and submit no
\* transaction, when the status they read is Undeclared, RevocationDeclared
\* or Revoked.
C4_ProgressRejectsNonProgressable ==
    \A c \in Callers :
        LET t == task[c]
            bad == {UNDECLARED, REVOCATION_DECLARED, REVOKED}
        IN  /\ (ProgressRequestWellFormed(req) /\ t.loc.psStatus \in bad)
               => t.res.pps.st = "rejected" /\ Calls(t.log, {"progressStake"}) = <<>>
            /\ (ProgressRequestWellFormed(req) /\ t.loc.pmStatus \in bad)
               => t.res.ppm.st = "rejected" /\ Calls(t.log, {"progressMint"}) = <<>>

\* C5: whenever the composite ProgressStake reports success, the outbox status
\* on origin and the inbox status on auxiliary are both Progressed.
C5_CompositeSuccessMeansBothProgressed ==
    \A c \in Callers :
        ( /\ task[c].op = "composite"
          /\ ProgressRequestWellFormed(req)
          /\ task[c].res.comp.st = "resolved" )
        => ledger.outbox = PROGRESSED /\ ledger.inbox = PROGRESSED

\* A composite run that progressed the origin outbox while its progress-mint failed.
PartialProgress(p) ==
    /\ p.op = "composite"
    /\ Calls(p.log, {"progressStake"}) # <<>>
    /\ p.res.pps.st = "resolved"
    /\ p.res.ppm.st = "rejected"

\* C6: the retry of a composite run that progressed the origin outbox but
\* whose progress-mint failed submits the progress-mint transaction and
\* nothing else: no prove-account, no confirm-intent, no progress-stake.
C6_RetryOnlyProgressMint ==
    \A c \in Callers :
        (task[c].op = "composite" /\ PartialProgress(prev[c]))
        => /\ Submitted(task[c].log) \in {<<>>, <<"progressMint">>}
           /\ task[c].loc.pmStatus # Undef => Submitted(task[c].log) = <<"progressMint">>

\* C6's case: the retry has run to its end and has submitted progress-mint.
C6_Witness ==
    \E c \in Callers :
        /\ PartialProgress(prev[c])
        /\ task[c].op = "composite"
        /\ task[c].pc.comp = "done"
        /\ task[c].loc.psStatus = PROGRESSED
        /\ Submitted(task[c].log) = <<"progressMint">>

\* C7: when both progress operations of the composite fail, the composite's
\* failure carries both errors.
C7_CompositeCarriesBothErrors ==
    \A c \in Callers :
        LET t == task[c] IN
        ( /\ t.op = "composite"
          /\ ProgressRequestWellFormed(req)
          /\ t.res.pps.st = "rejected"
          /\ t.res.ppm.st = "rejected" )
        => /\ t.res.comp.st = "rejected"
           /\ (t.res.pps.val \cup t.res.ppm.val) \subseteq t.res.comp.val

\* C8: an invocation all of whose adapter, anchor and proof-provider calls
\* have settled, a failed read included, has settled with a result or an error.
C8_EveryInvocationSettles ==
    \A c \in Callers :
        (task[c].op \in Operations /\ Quiescent(task[c]))
        => Result(task[c]).st \in {"resolved", "rejected"}

\* C9: with the staker's allowance read as insufficient and the staker not the
\* facilitator, Stake fails and submits no transaction at all.
C9_ThirdPartyUnapprovedNoSubmission ==
    \A c \in Callers :
        ( /\ task[c].op = "stake"
          /\ task[c].loc.isStakeAmountApproved = "false"
          /\ req.staker # req.txOptionOrigin.from )
        => /\ task[c].res.stake.st = "rejected"
           /\ Submitted(task[c].log) = <<>>

\* C10: Stake called without a hashLock submits the stake transaction with the
\* generated hashLock and returns the generated unlockSecret with the receipt.
C10_GeneratedHashLockUsedAndReturned ==
    \A c \in Callers :
        LET t == task[c] IN
        (t.op = "stake" /\ req.hashLock = Undef)
        => /\ t.loc.stakeArgs.sent
                => /\ t.loc.stakeArgs.hashLock = createSecretHashLock.hashLock
                   /\ t.loc.stakeArgs.hashLock = t.loc.hashLockObj.hashLock
           /\ t.res.stake.st = "resolved"
                => createSecretHashLock.unlockSecret \in t.res.stake.val

\* C11: in ConfirmStakeIntent prove-account is submitted before confirm-intent,
\* confirm-intent only after prove-account has succeeded; when the proof
\* request or prove-account fails, confirm-intent is never submitted and the
\* operation has failed.
C11_ProveBeforeConfirm ==
    \A c \in Callers :
        LET t == task[c] IN
        /\ Calls(t.log, ConfirmTxs) \in
              {<<>>, <<"proveGateway">>, <<"proveGateway", "confirmStakeIntent">>}
        /\ Calls(t.log, {"confirmStakeIntent"}) # <<>> => t.loc.proveTx = "accepted"
        /\ (t.res.gp.st = "rejected" \/ t.loc.proveTx = "refused")
           => /\ Calls(t.log, {"confirmStakeIntent"}) = <<>>
              /\ t.res.csi.st = "rejected"

\* C11's case: prove-account was accepted and confirm-intent then submitted.
C11_Witness ==
    \E c \in Callers :
        /\ task[c].op = "confirm"
        /\ task[c].loc.proveTx = "accepted"
        /\ Calls(task[c].log, ConfirmTxs) = <<"proveGateway", "confirmStakeIntent">>
        /\ task[c].res.csi.st = "resolved"

\* C12: a progress call made before the intent is confirmed (the outbox read
\* as Undeclared, or as Declared while the inbox is still Undeclared) fails
\* and submits no transaction on either ledger; stated for the single-ledger
\* performProgressStake and for the composite ProgressStake.
C12_ProgressBeforeConfirmFails ==
    \A c \in Callers :
        LET t == task[c] IN
        /\ ( /\ t.op = "pps"
             /\ ProgressRequestWellFormed(req)
             /\ \/ t.loc.psStatus = UNDECLARED
                \/ t.loc.psStatus = DECLARED /\ ledger.inbox = UNDECLARED )
           => /\ t.res.pps.st = "rejected"
              /\ Submitted(t.log) = <<>>
        /\ ( /\ t.op = "composite"
             /\ ProgressRequestWellFormed(req)
             /\ \/ t.loc.stakeMessageStatus = UNDECLARED
                \/ /\ t.loc.stakeMessageStatus = DECLARED
                   /\ t.loc.mintMessageStatus = UNDECLARED )
           => /\ t.res.comp.st = "rejected"
              /\ Submitted(t.log) = <<>>

\* The arguments of performProgressStake / performProgressMint pass the
\* operation's own checks.
PpsArgsValid(r) == r.unlockSecret \notin NumberVals \cup {Undef} /\ r.txOptionOrigin.def

PpmArgsValid(r) == r.unlockSecret \notin NumberVals \cup {Undef} /\ r.txOptionAuxiliary.def

\* C13: a single-ledger progress operation that reads its status slot as
\* Progressed (the outbox for performProgressStake, the inbox for
\* performProgressMint) has succeeded and submits no progress transaction.
C13_ProgressedIsSuccessWithoutTx ==
    \A c \in Callers :
        LET t == task[c] IN
        /\ (t.loc.psStatus = PROGRESSED /\ PpsArgsValid(req))
           => /\ t.res.pps.st = "resolved"
              /\ Calls(t.log, {"progressStake"}) = <<>>
        /\ (t.loc.pmStatus = PROGRESSED /\ PpmArgsValid(req))
           => /\ t.res.ppm.st = "resolved"
              /\ Calls(t.log, {"progressMint"}) = <<>>

\* C13's case: performProgressStake progressed the outbox, and a second call
\* has read Progressed and succeeded without a transaction.
C13_Witness ==
    \E c \in Callers :
        /\ prev[c].op = "pps"
        /\ prev[c].res.pps.st = "resolved"
        /\ Calls(prev[c].log, {"progressStake"}) # <<>>
        /\ task[c].op = "pps"
        /\ task[c].loc.psStatus = PROGRESSED
        /\ task[c].res.pps.st = "resolved"
        /\ Submitted(task[c].log) = <<>>

\* C14: Progressed and Revoked are terminal: a progress operation that reads
\* its status slot as Progressed or Revoked reports success, not an error,
\* and submits no transaction.
C14_TerminalStatusIsNoOpSuccess ==
    \A c \in Callers :
        LET t == task[c] IN
        /\ (t.loc.psStatus \in {PROGRESSED, REVOKED} /\ PpsArgsValid(req))
           => /\ t.res.pps.st = "resolved"
              /\ Calls(t.log, {"progressStake"}) = <<>>
        /\ (t.loc.pmStatus \in {PROGRESSED, REVOKED} /\ PpmArgsValid(req))
           => /\ t.res.ppm.st = "resolved"
              /\ Calls(t.log, {"progressMint"}) = <<>>

\* The number of calls named in S made by the two invocations together.
CallsOfBoth(S) == Len(Calls(task[1].log, S)) + Len(Calls(task[2].log, S))

\* C15: two concurrent invocations of ConfirmStakeIntent or of the composite
\* for the same message: confirm-intent and each progress transaction are
\* submitted at most once across the two, and neither invocation fails.
C15_ConcurrentInvocationsSafe ==
    ( /\ task[1].op \in {"confirm", "composite"}
      /\ task[2].op \in {"confirm", "composite"} )
    => /\ CallsOfBoth({"confirmStakeIntent"}) <= 1
       /\ CallsOfBoth({"progressStake"}) <= 1
       /\ CallsOfBoth({"progressMint"}) <= 1
       /\ \A c \in Clients : Result(task[c]).st # "rejected"

\* C16: in the composite's progress step both progress operations are issued;
\* each submits its transaction on a Declared status whatever became of the
\* other, and the effect of an accepted transaction stays on its ledger even
\* when the composite has failed.
C16_BothProgressOperationsIssued ==
    \A c \in Callers :
        LET t == task[c] IN
        (t.op = "composite")
        => /\ t.pc.pp # "idle" => (t.pc.pps # "idle" /\ t.pc.ppm # "idle")
           /\ t.loc.psStatus = DECLARED => Calls(t.log, {"progressStake"}) = <<"progressStake">>
           /\ t.loc.pmStatus = DECLARED => Calls(t.log, {"progressMint"}) = <<"progressMint">>
           /\ t.loc.progressStakeTx = "accepted" => ledger.outbox = PROGRESSED
           /\ t.loc.progressMintTx = "accepted" => ledger.inbox = PROGRESSED

\* C16's case: progress-mint was refused and the composite has failed, while
\* progress-stake was accepted and the outbox is Progressed.
C16_Witness ==
    \E c \in Callers :
        /\ task[c].op = "composite"
        /\ task[c].loc.progressMintTx = "refused"
        /\ task[c].res.comp.st = "rejected"
        /\ task[c].loc.progressStakeTx = "accepted"
        /\ ledger.outbox = PROGRESSED

\* The block height a decimal or 0x-prefixed hexadecimal numeral denotes.
HeightOf(numeral) ==
    CASE numeral \in {"9", "0x9"} -> 9
      [] numeral \in {"10", "0xa"} -> 10
      [] numeral = "0x10" -> 16
      [] OTHER -> -1

\* C17: the proof is requested for the origin gateway account and exactly one
\* storage key, the message hash, at the height of the anchor read in the
\* same call; prove-account and confirm-intent carry that same height.
C17_ProofAtAnchorHeight ==
    \A c \in Callers :
        LET t == task[c] IN
        /\ Calls(t.log, {"getOutboxProof"}) # <<>>
           => /\ Calls(t.log, {"getLatestAnchorInfo", "getOutboxProof"})
                    = <<"getLatestAnchorInfo", "getOutboxProof">>
              /\ t.loc.proofAccount = GatewayAddress
              /\ t.loc.proofKeys = {ConfirmMessageHash(req)}
              /\ HeightOf(t.loc.blockHeight) \in {9, 10}
              /\ HeightOf(t.loc.proofBlock) = HeightOf(t.loc.blockHeight)
        /\ Calls(t.log, {"proveGateway"}) # <<>>
           => HeightOf(t.loc.proveBlock) = HeightOf(t.loc.blockHeight)
        /\ Calls(t.log, {"confirmStakeIntent"}) # <<>>
           => HeightOf(t.loc.confirmBlock) = HeightOf(t.loc.blockHeight)

\* C17's case: the anchor was read at height 10, and the proof, prove-account
\* and confirm-intent were all issued.
C17_Witness ==
    \E c \in Callers :
        /\ task[c].loc.blockHeight = "10"
        /\ task[c].loc.proofBlock = "0xa"
        /\ Calls(task[c].log, ConfirmWork)
             = <<"getLatestAnchorInfo", "getOutboxProof", "proveGateway", "confirmStakeIntent">>

\* C18: Stake submits a stake-amount approval only after reading the allowance
\* as insufficient with the staker being the facilitator, a bounty approval
\* only after reading the bounty allowance as insufficient, each at most once;
\* with both read as sufficient it submits nothing but the stake transaction.
C18_NoReapproval ==
    \A c \in Callers :
        LET t == task[c] IN
        (t.op = "stake")
        => /\ Calls(t.log, {"approveStakeAmount"}) # <<>>
              => /\ Calls(t.log, {"approveStakeAmount"}) = <<"approveStakeAmount">>
                 /\ t.loc.isStakeAmountApproved = "false"
                 /\ req.staker = req.txOptionOrigin.from
           /\ Calls(t.log, {"approveBountyAmount"}) # <<>>
              => /\ Calls(t.log, {"approveBountyAmount"}) = <<"approveBountyAmount">>
                 /\ t.loc.isBountyAmountApproved = "false"
           /\ (t.loc.isStakeAmountApproved = "true" /\ t.loc.isBountyAmountApproved = "true")
              => Submitted(t.log) \in {<<>>, <<"stake">>}

\* C18's case: both allowances were read as sufficient and Stake has
\* submitted the stake transaction and nothing else.
C18_Witness ==
    \E c \in Callers :
        /\ task[c].op = "stake"
        /\ task[c].loc.isStakeAmountApproved = "true"
        /\ task[c].loc.isBountyAmountApproved = "true"
        /\ Submitted(task[c].log) = <<"stake">>
        /\ task[c].res.stake.st = "resolved"

\* C19: a progress operation whose submitted transaction the ledger refused
\* has failed with the ledger's rejection as its error, and has made exactly
\* one submission.
C19_RefusedProgressFails ==
    \A c \in Callers :
        LET t == task[c] IN
        /\ t.loc.progressStakeTx = "refused"
           => /\ t.res.pps = [st |-> "rejected", val |-> {"progressStake failed"}]
              /\ Calls(t.log, {"progressStake"}) = <<"progressStake">>
        /\ t.loc.progressMintTx = "refused"
           => /\ t.res.ppm = [st |-> "rejected", val |-> {"progressMint failed"}]
              /\ Calls(t.log, {"progressMint"}) = <<"progressMint">>

\* C20: a composite ProgressStake call that finds the message Progressed on
\* both ledgers (its first reads of the outbox and of the inbox return
\* Progressed) submits no transaction of any kind, and has succeeded once it
\* has read both statuses again in its progress step.
C20_AllProgressedNoTransaction ==
    \A c \in Callers :
        LET t == task[c] IN
        ( /\ t.op = "composite"
          /\ ProgressRequestWellFormed(req)
          /\ t.loc.stakeMessageStatus = PROGRESSED
          /\ t.loc.mintMessageStatus = PROGRESSED )
        => /\ Submitted(t.log) = <<>>
           /\ (t.loc.psStatus # Undef /\ t.loc.pmStatus # Undef)
              => t.res.comp = [st |-> "resolved", val |-> {"true"}]

\* C20's case: a composite call that found both ledgers Progressed has
\* succeeded without a transaction, and a further call has done so again.
C20_Witness ==
    \E c \in Callers :
        /\ prev[c].op = "composite"
        /\ prev[c].res.comp.st = "resolved"
        /\ task[c].op = "composite"
        /\ ledger.outbox = PROGRESSED
        /\ ledger.inbox = PROGRESSED
        /\ task[c].res.comp.st = "resolved"
        /\ task[c].log = <<"getOutboxMessageStatus", "getInboxMessageStatus",
                           "getOutboxMessageStatus", "getInboxMessageStatus">>

\* A ConfirmStakeIntent or composite request with an invalid parameter: a
\* malformed staker or beneficiary, a zero amount, a missing or non-string
\* gasPrice, gasLimit or nonce, or transaction options that are missing or
\* whose from address is malformed.
ConfirmRequestInvalid(r) ==
    \/ r.staker \notin Addresses
    \/ r.beneficiary \notin Addresses
    \/ r.amount = "0"
    \/ \E x \in {r.gasPrice, r.gasLimit, r.nonce} : x \in NumberVals \cup {Undef}
    \/ r.txOptionAuxiliary = NoTxOptions
    \/ r.txOptionAuxiliary.from \notin Addresses

CompositeRequestInvalid(r) ==
    \/ ConfirmRequestInvalid(r)
    \/ r.txOptionOrigin = NoTxOptions
    \/ r.txOptionOrigin.from \notin Addresses

\* C21: ConfirmStakeIntent and the composite ProgressStake, called with an
\* invalid parameter, fail and make no ledger read, no proof request and no
\* transaction submission.
C21_ValidatedBeforeSideEffects ==
    \A c \in Callers :
        LET t == task[c] IN
        /\ (t.op = "confirm" /\ ConfirmRequestInvalid(req))
           => t.res.csi.st = "rejected" /\ t.log = <<>>
        /\ (t.op = "composite" /\ CompositeRequestInvalid(req))
           => t.res.comp.st = "rejected" /\ t.log = <<>>

\* C22: Stake called with an amount that is zero or negative fails with a
\* validation error and makes no ledger call.
C22_StakeAmountStrictlyPositive ==
    \A c \in Callers :
        (task[c].op = "stake" /\ BN(req.amount) <= 0)
        => /\ task[c].res.stake.st = "rejected"
           /\ task[c].log = <<>>

\* C22 for the negative amounts alone: Stake called with a negative amount
\* has failed by the time it reads the nonce, and submits no stake transaction.
C22_NegativeAmountRejected ==
    \A c \in Callers :
        (task[c].op = "stake" /\ BN(req.amount) < 0)
        => /\ task[c].pc.stake = "awaitGetNonce" => task[c].res.stake.st = "rejected"
           /\ Calls(task[c].log, {"stake"}) = <<>>

\* The origin ledger's part of the state, and the transactions in a call log.
OriginPart(l) == <<l.outbox, l.nonce, l.stakeApproved, l.bountyApproved>>

TxSet(log) == {log[i] : i \in {j \in 1..Len(log) : log[j] \in Transactions}}

\* C23: each operation writes only to its own ledger.  Stake submits only
\* approval and stake transactions and never changes the auxiliary ledger;
\* ConfirmStakeIntent and performProgressMint submit only auxiliary
\* transactions and never change the origin ledger; performProgressStake
\* submits only the origin progress transaction and never changes the
\* auxiliary ledger.
C23_OwnLedgerOnly ==
    [][\A c \in Callers :
        /\ task[c].op = "stake"
           => /\ ledger'.inbox = ledger.inbox
              /\ TxSet(task'[c].log) \subseteq ApprovalAndStakeTxs
        /\ task[c].op \in {"confirm", "ppm"}
           => /\ OriginPart(ledger') = OriginPart(ledger)
              /\ TxSet(task'[c].log) \subseteq AuxiliaryTxs
        /\ task[c].op = "pps"
           => /\ ledger'.inbox = ledger.inbox
              /\ TxSet(task'[c].log) \subseteq {"progressStake"}]_vars

\* C23's case: performProgressMint has progressed the inbox on auxiliary
\* while the outbox on origin is still Declared.
C23_Witness ==
    \E c \in Callers :
        /\ task[c].op = "ppm"
        /\ task[c].loc.progressMintTx = "accepted"
        /\ ledger.inbox = PROGRESSED
        /\ ledger.outbox = DECLARED

\* C24: a Redeem or ProgressRedeem call is taken by the coordinator, which
\* hands back a promise; and a Redeem whose transaction value is absent or is
\* not the bounty amount has failed and submitted nothing.
C24_RedeemExposedAndValueChecked ==
    \A c \in Callers :
        LET t == task[c] IN
        /\ t.op \in RedeemMethods => t.loc.thrown = Undef
        /\ (t.op = "redeem" /\ t.loc.redeemValue # BountyAmount)
           => /\ Result(t).st = "rejected"
              /\ Submitted(t.log) = <<>>

ProgressTxs == {"progressStake", "progressMint"}

\* C27: in a composite ProgressStake call a progress transaction has been
\* submitted only once ConfirmStakeIntent has succeeded; and once
\* ConfirmStakeIntent has failed, the composite has failed with its error and
\* neither progress operation has been started.
C27_ProgressOnlyAfterConfirm ==
    \A c \in Callers :
        LET t == task[c] IN
        t.op = "composite"
        => /\ Calls(t.log, ProgressTxs) # <<>> => t.res.csi.st = "resolved"
           /\ t.res.csi.st = "rejected"
              => /\ t.res.comp.st = "rejected"
                 /\ t.res.comp.val = t.res.csi.val
                 /\ t.pc.pp = "idle" /\ t.pc.pps = "idle" /\ t.pc.ppm = "idle"
                 /\ Calls(t.log, ProgressTxs) = <<>>

\* C28: a Stake call that has failed because an approval transaction failed
\* or because the nonce could not be read has submitted no transaction after
\* that failure: no bounty approval after a failed stake approval, and no
\* stake transaction after any of the three.
C28_FailedStepStopsStake ==
    \A c \in Callers :
        LET t == task[c] IN
        (t.op = "stake" /\ t.res.stake.st = "rejected")
        => /\ t.res.stake.val = {"approveStakeAmount failed"}
              => Submitted(t.log) = <<"approveStakeAmount">>
           /\ t.res.stake.val = {"approveBountyAmount failed"}
              => Calls(t.log, {"stake"}) = <<>>
           /\ t.res.stake.val = {"getNonce failed"}
              => Calls(t.log, {"stake"}) = <<>>

\* C29 as first stated: a ConfirmStakeIntent call has requested a proof or
\* submitted a transaction only if the inbox status it read was Undeclared.
C29_ConfirmOnlyFromUndeclaredInbox ==
    \A c \in Callers :
        LET t == task[c] IN
        (t.op = "confirm" /\ Calls(t.log, {"getOutboxProof"} \cup ConfirmTxs) # <<>>)
        => t.loc.mintMessageStatus = UNDECLARED

\* C29: a ConfirmStakeIntent call has requested a proof or submitted a
\* transaction only if the inbox status it read was Undeclared or
\* RevocationDeclared: never after reading Declared, Progressed or Revoked.
C29_ConfirmOnlyFromUnconfirmedInbox ==
    \A c \in Callers :
        LET t == task[c] IN
        (t.op = "confirm" /\ Calls(t.log, {"getOutboxProof"} \cup ConfirmTxs) # <<>>)
        => t.loc.mintMessageStatus \in {UNDECLARED, REVOCATION_DECLARED}

\* C29's case: ConfirmStakeIntent read the inbox Undeclared and has submitted
\* both of its transactions.
C29_Witness ==
    \E c \in Callers :
        /\ task[c].op = "confirm"
        /\ task[c].loc.mintMessageStatus = UNDECLARED
        /\ Calls(task[c].log, ConfirmTxs) = <<"proveGateway", "confirmStakeIntent">>

\* The position of the first call named `name` in a call log, 0 if none.
FirstCall(log, name) ==
    IF \E i \in 1..Len(log) : log[i] = name
    THEN CHOOSE i \in 1..Len(log) :
            log[i] = name /\ \A j \in 1..(i - 1) : log[j] # name
    ELSE 0

\* C30: a Stake call that has succeeded has submitted exactly one stake
\* transaction, with the caller's amount, beneficiary, gas price and gas limit
\* and the nonce it read from the origin ledger; the stake transaction is the
\* last call of the invocation, made after the nonce read, which itself comes
\* after every approval transaction of the invocation.
C30_SuccessfulStakeSubmission ==
    \A c \in Callers :
        LET t == task[c]
            a == t.loc.stakeArgs
            n == Len(t.log)
        IN  (t.op = "stake" /\ t.res.stake.st = "resolved")
            => /\ Calls(t.log, {"stake"}) = <<"stake">>
               /\ a.sent
               /\ a.amount = req.amount /\ a.beneficiary = req.beneficiary
               /\ a.gasPrice = req.gasPrice /\ a.gasLimit = req.gasLimit
               /\ t.loc.nonce # Undef /\ a.nonce = t.loc.nonce
               /\ Calls(t.log, {"getNonce"}) = <<"getNonce">>
               /\ t.log[n] = "stake" /\ t.log[n - 1] = "getNonce"
               /\ \A i \in 1..n :
                     t.log[i] \in {"approveStakeAmount", "approveBountyAmount"}
                     => i < FirstCall(t.log, "getNonce")

\* C30's case: a Stake call that approved both allowances itself, read the
\* nonce, submitted the stake transaction and succeeded.
C30_Witness ==
    \E c \in Callers :
        /\ task[c].op = "stake"
        /\ task[c].res.stake.st = "resolved"
        /\ Submitted(task[c].log) = <<"approveStakeAmount", "approveBountyAmount", "stake">>
        /\ ledger.outbox = DECLARED

\* C31: in a composite ProgressStake call that has started the progress
\* operations, the message hash handed to them is the hash whose statuses
\* ConfirmStakeIntent read, and it is the hash of (amount, beneficiary, origin
\* gateway address, nonce, gasPrice, gasLimit, staker, hashLock) in that order.
C31_ProgressesTheConfirmedMessage ==
    \A c \in Callers :
        LET t == task[c] IN
        (t.op = "composite" /\ t.pc.pp # "idle")
        => /\ t.loc.ppHash = t.loc.csiHash
           /\ t.loc.ppHash =
                 <<"stake", req.amount, req.beneficiary, GatewayAddress, req.nonce,
                   req.gasPrice, req.gasLimit, req.staker, req.hashLock>>

\* C31's case: a composite call in which ConfirmStakeIntent read both statuses
\* and both progress operations have read theirs.
C31_Witness ==
    \E c \in Callers :
        /\ task[c].op = "composite"
        /\ task[c].loc.stakeMessageStatus # Undef
        /\ task[c].loc.mintMessageStatus # Undef
        /\ task[c].loc.psStatus # Undef
        /\ task[c].loc.pmStatus # Undef
        /\ task[c].loc.ppHash = task[c].loc.csiHash
        /\ req.gasPrice # req.gasLimit

\* The error of the first invalid constructor argument, in the order
\* originWeb3, auxiliaryWeb3, gatewayAddress, coGatewayAddress.
FirstInvalidArgument(a) ==
    IF a.originWeb3 \notin Web3Objects THEN "Invalid origin web3 object."
    ELSE IF a.auxiliaryWeb3 \notin Web3Objects THEN "Invalid auxiliary web3 object."
    ELSE IF a.gatewayAddress \notin Addresses THEN "Invalid Gateway address."
    ELSE IF a.coGatewayAddress \notin Addresses THEN "Invalid CoGateway address."
    ELSE Undef

=============================================================================
